---- MODULE Spec2Model ----
(***************************************************************************)
(* Youtube-Download-Coordinator: the claim / retry / dead-letter protocol  *)
(* that several workers run against one shared spreadsheet.                *)
(*                                                                         *)
(* The spreadsheet is three tables (Sources, Video Tasks, Dead-Letter),    *)
(* each a sequence of rows.  One step of the model is one call to the      *)
(* store (get_all_records, findall, row_values, update_cells, append_rows, *)
(* delete_rows) together with the local computation that follows it, so    *)
(* every interleaving of the workers' store calls is a behaviour.          *)
(***************************************************************************)
EXTENDS Integers, Sequences, FiniteSets, TLC

VARIABLES
    numericise,   \* whether get_all_records hands numeric-looking cells back as numbers
    sources,      \* the Sources worksheet (data rows, below the header)
    tasks,        \* the Video Tasks worksheet
    dead,         \* the Dead-Letter worksheet
    wk,           \* per worker: position in its routine and its local variables
    cycles,       \* per worker: work cycles started so far
    claimed,      \* history: successful claims since the row was last released
    faults,       \* calls of the store or of the resolver that have raised so far
    api,          \* one SheetClient's rate limiter and the operation it is executing
    imp,          \* import_sources_from_file: the sources file, the hash file, the call
    delivered     \* history: per task ID ever in the Video Tasks table, the times
                  \* get_next_task has returned it to a caller

vars == <<numericise, sources, tasks, dead, wk, cycles, claimed, faults, api, imp, delivered>>

(***************************************************************************)
(* Bounds of the model.                                                    *)
(***************************************************************************)
MaxRows == 3
\* calls of get_next_task / get_next_source_to_expand one worker makes
MaxCycles == 2
\* calls of Coordinator.process_next_task one worker makes
MaxRuns == 1
\* calls of the store or of the resolver that raise in one behaviour
MaxFaults == 1
\* lines of the sources file
MaxFileLines == 2

(***************************************************************************)
(* config.py                                                               *)
(***************************************************************************)
STATUS_PENDING == "pending"
STATUS_IN_PROGRESS == "in-progress"
STATUS_DONE == "done"
STATUS_ERROR == "error"

\* Config fields (defaults 3, 60 minutes and 25); the model runs a
\* configuration with small values.
max_retries == 2
stalled_task_timeout == 1
api_wait_seconds == 3
video_task_batch_size == 2

\* Messages are sequences of words, so that "sub in error_message" is a
\* substring test and not an equality.
fatal_error_substrings ==
    { <<"Private", "video">>, <<"Video", "unavailable">> }

Workers == {"w1", "w2"}

(***************************************************************************)
(* Cell values.  IDs are text.  A cell whose text is a decimal number is   *)
(* numeric-looking: get_all_records returns it as a number when the        *)
(* client numericises, while row_values always returns the text.  int()    *)
(* accepts decimal text and decimal text with single underscores, so that  *)
(* str(int(text)) is not always the text: "1_2" stands for every ID whose  *)
(* text is not the canonical decimal form of its integer value.            *)
(***************************************************************************)
DigitIds == {"12", "10"}
UnderscoreIds == {"1_2", "1_0"}

CanInt(s) == s \in DigitIds \cup UnderscoreIds

IntOf(s) ==
    CASE s = "12" -> 12
      [] s = "1_2" -> 12
      [] s = "10" -> 10
      [] s = "1_0" -> 10
      [] OTHER -> 0

StrOfInt(n) ==
    CASE n = 12 -> "12"
      [] n = 10 -> "10"
      [] OTHER -> "0"

\* The value get_all_records gives for an ID cell is a number, not text.
Numericised(cell) == numericise /\ cell \in DigitIds

\* record.get('ID') == row_id, with row_id a str: a number never equals text.
RecEq(cell, rowId) == ~Numericised(cell) /\ cell = rowId

\* str(record.get('ID'))
StrOfRecordId(cell) == IF Numericised(cell) THEN StrOfInt(IntOf(cell)) ELSE cell

\* int(record.get(key)) succeeds
CanIntRecord(cell) == Numericised(cell) \/ CanInt(cell)

(***************************************************************************)
(* Rows.  RetryCount is a number, -1 standing for an empty cell.           *)
(* ClaimedAt is kept as the time elapsed since the timestamp was taken     *)
(* (current time - ClaimedAt), the only way the code reads it; -1 stands   *)
(* for an empty cell.  Elapsed times beyond the stall timeout are not told *)
(* apart.                                                                  *)
(***************************************************************************)
Blank == -1
NoMsg == << >>
NoUpd == << >>

BlankRow ==
    [ID |-> "", SourceID |-> "", URL |-> "", Status |-> "", ClaimedBy |-> "",
     ClaimedAt |-> Blank, RetryCount |-> Blank, LastError |-> NoMsg]

\* for key, value in updates.items(): the named columns are overwritten
ApplyUpd(row, upd) ==
    [c \in DOMAIN row |-> IF c \in DOMAIN upd THEN upd[c] ELSE row[c]]

\* Sheet row numbers: row 1 is the header, data row i is sheet row i + 1
\* (row_index = index + 2 for a 0-based index).
SheetRow(i) == i + 1
DataIndex(r) == r - 1

\* current_time_epoch - claimed_at_epoch
Elapsed(claimedAt) == claimedAt

\* get_current_timestamp(): no time has elapsed since
Timestamp == 0

\* the test of _find_stalled_task / _find_stalled_source on one record
IsStalled(rec) ==
    /\ rec.Status = STATUS_IN_PROGRESS
    /\ rec.ClaimedAt # Blank
    /\ Elapsed(rec.ClaimedAt) > stalled_task_timeout

\* The first of a set of data indices, 0 when the set is empty.
FirstIndex(S) == IF S = {} THEN 0 ELSE CHOOSE i \in S : \A j \in S : i <= j

\* The first row with the given ID, as a scan of get_all_records finds it.
IndexOfId(tbl, rowId) == FirstIndex({i \in 1..Len(tbl) : RecEq(tbl[i].ID, rowId)})

\* The first stalled row of a scan of get_all_records.
IndexOfStalled(tbl) == FirstIndex({i \in 1..Len(tbl) : IsStalled(tbl[i])})

\* The IDs of the rows a scan of get_all_records sees stalled.
StalledIds(tbl) == {tbl[i].ID : i \in {j \in 1..Len(tbl) : IsStalled(tbl[j])}}

\* The row of the first cell findall(STATUS_PENDING) returns.
IndexOfPending(tbl) == FirstIndex({i \in 1..Len(tbl) : tbl[i].Status = STATUS_PENDING})

\* worksheet.update_cells on one sheet row: by position, whatever row is there now.
WriteCells(tbl, i, upd) ==
    IF i <= Len(tbl)
    THEN [tbl EXCEPT ![i] = ApplyUpd(@, upd)]
    ELSE [j \in 1..i |-> IF j <= Len(tbl) THEN tbl[j]
                         ELSE IF j = i THEN ApplyUpd(BlankRow, upd) ELSE BlankRow]

\* worksheet.delete_rows: by position; rows below move up.
DeleteRow(tbl, i) ==
    IF i \in 1..Len(tbl)
    THEN [j \in 1..(Len(tbl) - 1) |-> IF j < i THEN tbl[j] ELSE tbl[j + 1]]
    ELSE tbl

\* worksheet.row_values: the empty list for a row with no content.
RowIsEmpty(tbl, i) == i > Len(tbl) \/ tbl[i] = BlankRow

Contains(sub, msg) ==
    \E i \in 1..(Len(msg) - Len(sub) + 1) : SubSeq(msg, i, i + Len(sub) - 1) = sub

\* any(sub in error_message for sub in fatal_error_substrings)
IsFatal(msg) == \E sub \in fatal_error_substrings : Contains(sub, msg)

IdsOf(tbl) == {tbl[i].ID : i \in 1..Len(tbl)}

(***************************************************************************)
(* A worker's local state.  The last three fields are history, read by no  *)
(* action: held is the ID text of the row the current operation is about   *)
(* (the row claimed, or the stalled row found), snap the IDs the running   *)
(* expansion read as existing (in a stall recovery: the IDs of the rows    *)
(* the scan saw stalled), added the rows it has appended so far.           *)
(***************************************************************************)
NoTask == [some |-> FALSE, id |-> 0, url |-> "", retry_count |-> 0]
NoSource == [some |-> FALSE, id |-> "", url |-> ""]

W0 ==
    [pc |-> "idle", cphase |-> "", op |-> "", uret |-> "", utbl |-> "", urow |-> "",
     uupd |-> NoUpd, uidx |-> 0, dmsg |-> NoMsg, drow |-> BlankRow,
     tid |-> "", task |-> NoTask, src |-> NoSource,
     existing |-> {}, rest |-> << >>, batch |-> << >>,
     total_added |-> 0, total_skipped |-> 0,
     held |-> "", snap |-> {}, added |-> << >>]

Table(t) == IF t = "sources" THEN sources ELSE tasks

\* self.client.update_row(worksheet, row_id, updates), continuing at ret
CallUpdateRow(r, kind, tbl, rowId, upd, ret) ==
    [r EXCEPT !.pc = "u_read", !.op = kind, !.utbl = tbl, !.urow = rowId,
              !.uupd = upd, !.uret = ret, !.uidx = 0]

\* self.client.move_task_to_dead_letter(row_id, error_message), continuing at ret
CallDeadLetter(r, kind, rowId, msg, ret) ==
    [r EXCEPT !.pc = "d_read", !.op = kind, !.utbl = "tasks", !.urow = rowId,
              !.dmsg = msg, !.uret = ret, !.uidx = 0]

\* return from update_row / move_task_to_dead_letter to the caller
UReturn(r) ==
    [W0 EXCEPT !.pc = r.uret,
               !.tid = IF r.uret \in {"t_reread", "s_reread"} THEN r.tid ELSE "",
               !.cphase = IF r.uret \in {"s_find", "s_reread"} THEN r.cphase ELSE ""]

Released(cl, tbl, ids) == {c \in cl : ~(c[1] = tbl /\ c[2] \in ids)}

\* History of deliveries: the rows of a table that was just written, none
\* delivered yet; rows appended later; one more delivery of a task.
NoneDelivered(tbl) == [id \in IdsOf(tbl) |-> 0]

WithAppended(d, ids) == [id \in DOMAIN d \cup ids |-> IF id \in DOMAIN d THEN d[id] ELSE 0]

OneMoreDelivery(d, id) ==
    [x \in DOMAIN d \cup {id} |-> IF x = id THEN (IF x \in DOMAIN d THEN d[x] ELSE 0) + 1
                                  ELSE d[x]]

(***************************************************************************)
(* SheetClient._wait_for_api                                               *)
(***************************************************************************)
\* SheetClient.__init__: last_api_call_time = 0, no store call issued yet.
\* mark is the time since last_api_call_time, gap the time since the last
\* store call was issued; times of api_wait_seconds and more are not told apart.
Api0 == [op |-> "", k |-> 0, mark |-> 0, gap |-> 0]

\* The calls one operation of the client makes, in order, on each of its
\* paths: "wait" is self._wait_for_api(), "call" a call of a worksheet method.
ApiProgram(op) ==
    CASE op = "get_records"          -> << "wait", "call" >>
      [] op = "find_pending_none"    -> << "wait", "call", "wait", "call" >>
      [] op = "find_pending_row"     -> << "wait", "call", "wait", "call", "wait", "call", "call" >>
      [] op = "update_row_missing"   -> << "wait", "call" >>
      [] op = "update_row"           -> << "wait", "call", "wait", "call", "wait", "call" >>
      [] op = "append_rows"          -> << "wait", "call" >>
      [] op = "add_source"           -> << "wait", "call" >>
      [] op = "dead_letter_missing"  -> << "wait", "call" >>
      [] op = "dead_letter"          -> << "wait", "call", "wait", "call", "wait", "call",
                                            "wait", "call" >>

ApiOperations ==
    {"get_records", "find_pending_none", "find_pending_row", "update_row_missing",
     "update_row", "append_rows", "add_source", "dead_letter_missing", "dead_letter"}

ApiLater(t, d) == IF t + d > api_wait_seconds THEN api_wait_seconds ELSE t + d

\* what the operation does next
ApiItem == IF api.op = "" THEN "" ELSE ApiProgram(api.op)[api.k]

ApiAdvance(a) ==
    IF a.k = Len(ApiProgram(a.op)) THEN [a EXCEPT !.op = "", !.k = 0]
    ELSE [a EXCEPT !.k = @ + 1]

\* a manager calls an operation of the client
Api_Begin(op) ==
    /\ api.op = ""
    /\ api' = [api EXCEPT !.op = op, !.k = 1]
    /\ UNCHANGED <<delivered, faults, imp, numericise, sources, tasks, dead, wk, cycles, claimed>>

\* _wait_for_api: sleep for what is missing to api_wait_seconds since
\* last_api_call_time, then set last_api_call_time to now
Api_Wait ==
    /\ ApiItem = "wait"
    /\ LET elapsed == api.mark
           sleep_duration == IF elapsed < api_wait_seconds
                             THEN api_wait_seconds - elapsed ELSE 0
       IN api' = ApiAdvance([api EXCEPT !.mark = 0, !.gap = ApiLater(@, sleep_duration)])
    /\ UNCHANGED <<delivered, faults, imp, numericise, sources, tasks, dead, wk, cycles, claimed>>

\* the call of the worksheet method is issued
Api_StoreCall ==
    /\ ApiItem = "call"
    /\ api' = ApiAdvance([api EXCEPT !.gap = 0])
    /\ UNCHANGED <<delivered, faults, imp, numericise, sources, tasks, dead, wk, cycles, claimed>>

\* a second passes: in a store call, in the caller's own work, between
\* operations; no time passes between _wait_for_api and the call it precedes
Api_Tick ==
    /\ api.mark < api_wait_seconds \/ api.gap < api_wait_seconds
    /\ ~(ApiItem = "call" /\ ApiProgram(api.op)[api.k - 1] = "wait")
    /\ api' = [api EXCEPT !.mark = ApiLater(@, 1), !.gap = ApiLater(@, 1)]
    /\ UNCHANGED <<delivered, faults, imp, numericise, sources, tasks, dead, wk, cycles, claimed>>

(***************************************************************************)
(* add_sources.import_sources_from_file                                    *)
(***************************************************************************)
\* the content of a hash file that was just created
NoHash == << >>

\* calculate_file_hash: SHA-256 of the content; different contents have
\* different digests, and no digest is the empty string
FileHash(content) == << content >>

Imp0 == [pc |-> "idle", file |-> << >>, hash_file |-> NoHash, file_hash |-> NoHash,
         k |-> 0, existing_urls |-> {}]

\* lines of a sources file, split at "|" (a blank line has one empty part)
FileLines ==
    { <<"u1", "br", "playlist">>, <<"u2", "us", "channel">>, <<"u4">>, <<"">> }

SourcesFiles == UNION { [1..n -> FileLines] : n \in 0..MaxFileLines }

\* the row add_source appends: ID, ClaimedBy, ClaimedAt empty, no RetryCount
AddedSourceRow(url) ==
    [ID |-> "", SourceID |-> "", URL |-> url, Status |-> STATUS_PENDING, ClaimedBy |-> "",
     ClaimedAt |-> Blank, RetryCount |-> Blank, LastError |-> NoMsg]

\* someone edits the sources file between two imports
Import_FileEdit ==
    /\ imp.pc = "idle"
    /\ \E f \in SourcesFiles \ {imp.file} : imp' = [imp EXCEPT !.file = f]
    /\ UNCHANGED <<delivered, faults, api, numericise, sources, tasks, dead, wk, cycles, claimed>>

\* a call that imports whatever the hash file says
Import_CallUngated ==
    /\ imp.pc = "idle"
    /\ imp' = [imp EXCEPT !.file_hash = FileHash(imp.file), !.pc = "i_read"]
    /\ UNCHANGED <<delivered, faults, api, numericise, sources, tasks, dead, wk, cycles, claimed>>

\* import_sources_from_file up to the comparison of the two hashes
Import_Call ==
    /\ imp.pc = "idle"
    /\ LET file_hash == FileHash(imp.file)
           last_hash == imp.hash_file
       IN imp' = IF last_hash = file_hash THEN imp
                 ELSE [imp EXCEPT !.file_hash = file_hash, !.pc = "i_read"]
    /\ UNCHANGED <<delivered, faults, api, numericise, sources, tasks, dead, wk, cycles, claimed>>

\* client.get_sources() and the set of existing URLs
Import_Read ==
    /\ imp.pc = "i_read"
    /\ imp' = [imp EXCEPT !.pc = "i_line", !.k = 1,
                          !.existing_urls = {sources[i].URL : i \in 1..Len(sources)}]
    /\ UNCHANGED <<delivered, faults, api, numericise, sources, tasks, dead, wk, cycles, claimed>>

\* one turn of the loop over the lines; after the last line the summary
Import_Line ==
    /\ imp.pc = "i_line"
    /\ IF imp.k > Len(imp.file)
       THEN imp' = [imp EXCEPT !.pc = "i_hash"] /\ sources' = sources
       ELSE LET parts == imp.file[imp.k]
                url == parts[1]
            IN IF url = "" \/ url \in imp.existing_urls
               THEN imp' = [imp EXCEPT !.k = @ + 1] /\ sources' = sources
               ELSE IF Len(parts) # 3
                    \* add_source(*parts) takes url, accent, source_type: TypeError
                    THEN /\ imp' = [imp EXCEPT !.pc = "idle", !.k = 0, !.existing_urls = {},
                                               !.file_hash = NoHash]
                         /\ sources' = sources
                    ELSE /\ Len(sources) < MaxRows
                         /\ sources' = Append(sources, AddedSourceRow(url))
                         /\ imp' = [imp EXCEPT !.k = @ + 1,
                                               !.existing_urls = @ \cup {url}]
    /\ UNCHANGED <<delivered, faults, api, numericise, tasks, dead, wk, cycles, claimed>>

\* get_sources or add_source raises: the except of import_sources_from_file
Import_StoreRaises ==
    /\ imp.pc \in {"i_read", "i_line"}
    /\ faults < MaxFaults
    /\ faults' = faults + 1
    /\ imp' = [imp EXCEPT !.pc = "idle", !.k = 0, !.existing_urls = {}, !.file_hash = NoHash]
    /\ UNCHANGED <<delivered, api, numericise, sources, tasks, dead, wk, cycles, claimed>>

\* the hash computed at the start of the call is written to the hash file
Import_WriteHash ==
    /\ imp.pc = "i_hash"
    /\ imp' = [imp EXCEPT !.pc = "idle", !.k = 0, !.existing_urls = {},
                          !.hash_file = imp.file_hash, !.file_hash = NoHash]
    /\ UNCHANGED <<delivered, faults, api, numericise, sources, tasks, dead, wk, cycles, claimed>>

(***************************************************************************)
(* SheetClient.update_row                                                  *)
(***************************************************************************)
\* get_all_records, then the scan for the row whose ID equals row_id
UpdateRow_Read(w) ==
    /\ wk[w].pc = "u_read"
    /\ LET i == IndexOfId(Table(wk[w].utbl), wk[w].urow)
       IN wk' = [wk EXCEPT ![w] =
                    IF i = 0 THEN UReturn(@)
                    ELSE [@ EXCEPT !.pc = "u_write", !.uidx = SheetRow(i)]]
    /\ UNCHANGED <<delivered, faults, api, imp, numericise, sources, tasks, dead, cycles, claimed>>

\* update_cells on the row number computed by the read
UpdateRow_Write(w) ==
    /\ wk[w].pc = "u_write"
    /\ LET r == wk[w]
           i == DataIndex(r.uidx)
           tbl == Table(r.utbl)
           hitId == IF i <= Len(tbl) THEN tbl[i].ID ELSE ""
           rel == "Status" \in DOMAIN r.uupd /\ r.uupd.Status = STATUS_PENDING
       IN /\ i <= MaxRows
          /\ IF r.utbl = "sources"
             THEN sources' = WriteCells(sources, i, r.uupd) /\ tasks' = tasks
             ELSE tasks' = WriteCells(tasks, i, r.uupd) /\ sources' = sources
          /\ claimed' = IF rel THEN Released(claimed, r.utbl, {hitId}) ELSE claimed
    /\ wk' = [wk EXCEPT ![w] = UReturn(@)]
    /\ UNCHANGED <<delivered, faults, api, imp, numericise, dead, cycles>>

(***************************************************************************)
(* SheetClient.move_task_to_dead_letter, on the steps of                   *)
(* move_row_to_dead_letter                                                 *)
(***************************************************************************)
\* the row as it is written to the dead-letter worksheet
DeadLetterRow(row, msg) == [row EXCEPT !.LastError = msg]

DeadLetter_Read(w) ==
    /\ wk[w].pc = "d_read"
    /\ LET i == IndexOfId(tasks, wk[w].urow)
       IN wk' = [wk EXCEPT ![w] =
                    IF i = 0 THEN UReturn(@)
                    ELSE [@ EXCEPT !.pc = "d_row", !.uidx = SheetRow(i)]]
    /\ UNCHANGED <<delivered, faults, api, imp, numericise, sources, tasks, dead, cycles, claimed>>

\* row_to_move = row_values(row_index)
DeadLetter_Row(w) ==
    /\ wk[w].pc = "d_row"
    /\ LET i == DataIndex(wk[w].uidx)
       IN wk' = [wk EXCEPT ![w] =
                    IF RowIsEmpty(tasks, i) THEN UReturn(@)
                    ELSE [@ EXCEPT !.pc = "d_append", !.drow = tasks[i]]]
    /\ UNCHANGED <<delivered, faults, api, imp, numericise, sources, tasks, dead, cycles, claimed>>

\* dead_letter_worksheet.append_row(row_to_move)
DeadLetter_Append(w) ==
    /\ wk[w].pc = "d_append"
    /\ Len(dead) < MaxRows
    /\ dead' = Append(dead, DeadLetterRow(wk[w].drow, wk[w].dmsg))
    /\ wk' = [wk EXCEPT ![w].pc = "d_delete"]
    /\ UNCHANGED <<delivered, faults, api, imp, numericise, sources, tasks, cycles, claimed>>

\* video_tasks_worksheet.delete_rows(row_index)
DeadLetter_Delete(w) ==
    /\ wk[w].pc = "d_delete"
    /\ LET i == DataIndex(wk[w].uidx)
       IN /\ tasks' = DeleteRow(tasks, i)
          /\ claimed' = IF i \in 1..Len(tasks)
                        THEN Released(claimed, "tasks", {tasks[i].ID}) ELSE claimed
    /\ wk' = [wk EXCEPT ![w] = UReturn(@)]
    /\ UNCHANGED <<delivered, faults, api, imp, numericise, sources, dead, cycles>>

(***************************************************************************)
(* TaskManager                                                             *)
(***************************************************************************)
StallMessage == <<"Task stalled after maximum retries.">>

\* VideoTask.from_dict: int() of ID, SourceID and RetryCount must succeed
FromDictOk(rec) ==
    /\ CanIntRecord(rec.ID)
    /\ CanIntRecord(rec.SourceID)
    /\ rec.RetryCount # Blank

FromDict(rec) ==
    [some |-> TRUE, id |-> IntOf(rec.ID), url |-> rec.URL, retry_count |-> rec.RetryCount]

\* entry of get_next_task (after the jitter sleep)
GetNextTask_Call(w) ==
    /\ wk[w].pc = "idle"
    /\ cycles[w] < MaxCycles
    /\ cycles' = [cycles EXCEPT ![w] = @ + 1]
    /\ wk' = [wk EXCEPT ![w].pc = "t_scan"]
    /\ UNCHANGED <<delivered, faults, api, imp, numericise, sources, tasks, dead, claimed>>

\* _find_stalled_task and the choice between dead-letter and reset
GetNextTask_Scan(w) ==
    /\ wk[w].pc = "t_scan"
    /\ LET i == IndexOfStalled(tasks)
           rec == tasks[i]
           new_retry_count == rec.RetryCount + 1
       IN wk' = [wk EXCEPT ![w] =
            IF i = 0 THEN [@ EXCEPT !.pc = "t_find"]
            ELSE IF rec.RetryCount = Blank THEN [W0 EXCEPT !.pc = "raised"]
            ELSE IF new_retry_count > max_retries
                 THEN CallDeadLetter([@ EXCEPT !.held = rec.ID, !.snap = StalledIds(tasks)],
                        "stall_dl",
                        StrOfRecordId(rec.ID), StallMessage, "t_find")
                 ELSE CallUpdateRow([@ EXCEPT !.held = rec.ID, !.snap = StalledIds(tasks)],
                        "stall_reset", "tasks",
                        StrOfRecordId(rec.ID),
                        [Status |-> STATUS_PENDING, RetryCount |-> new_retry_count], "t_find")]
    /\ UNCHANGED <<delivered, faults, api, imp, numericise, sources, tasks, dead, cycles, claimed>>

\* find_next_pending_task: findall(STATUS_PENDING) in the Status column
GetNextTask_Find(w) ==
    /\ wk[w].pc = "t_find"
    /\ LET i == IndexOfPending(tasks)
       IN wk' = [wk EXCEPT ![w] =
            IF i = 0 THEN W0
            ELSE [@ EXCEPT !.pc = "t_row", !.uidx = SheetRow(i)]]
    /\ UNCHANGED <<delivered, faults, api, imp, numericise, sources, tasks, dead, cycles, claimed>>

\* find_next_pending_task: row_values(first_pending_cell.row); then the
\* claim's row id, hostname and timestamp
GetNextTask_Row(w) ==
    /\ wk[w].pc = "t_row"
    /\ LET i == DataIndex(wk[w].uidx)
       IN wk' = [wk EXCEPT ![w] =
            IF RowIsEmpty(tasks, i) THEN W0
            ELSE CallUpdateRow([@ EXCEPT !.tid = tasks[i].ID],
                    "claim", "tasks", tasks[i].ID,
                    [Status |-> STATUS_IN_PROGRESS, ClaimedBy |-> w, ClaimedAt |-> Timestamp],
                    "t_reread")]
    /\ UNCHANGED <<delivered, faults, api, imp, numericise, sources, tasks, dead, cycles, claimed>>

\* _get_task_by_id, the ClaimedBy comparison and VideoTask.from_dict
GetNextTask_Reread(w) ==
    /\ wk[w].pc = "t_reread"
    /\ LET i == IndexOfId(tasks, wk[w].tid)
           ok == i # 0 /\ tasks[i].ClaimedBy = w /\ FromDictOk(tasks[i])
       IN /\ wk' = [wk EXCEPT ![w] =
                IF ok THEN [W0 EXCEPT !.pc = "processing", !.task = FromDict(tasks[i]),
                                      !.held = wk[w].tid]
                ELSE W0]
          /\ claimed' = IF ok THEN claimed \cup {<<"tasks", wk[w].tid, w>>} ELSE claimed
          /\ delivered' = IF ok THEN OneMoreDelivery(delivered, wk[w].tid) ELSE delivered
    /\ UNCHANGED <<faults, api, imp, numericise, sources, tasks, dead, cycles>>

\* a handler that returns without recording the outcome
MarkTaskAsDoneUnrecorded(w) ==
    /\ wk[w].pc = "processing"
    /\ wk' = [wk EXCEPT ![w] = W0]
    /\ UNCHANGED <<delivered, faults, api, imp, numericise, sources, tasks, dead, cycles, claimed>>

\* the processing function returned: mark_task_as_done
MarkTaskAsDone(w) ==
    /\ wk[w].pc = "processing"
    /\ wk' = [wk EXCEPT ![w] =
            CallUpdateRow(@, "done", "tasks", StrOfInt(@.task.id),
                [Status |-> STATUS_DONE], "idle")]
    /\ UNCHANGED <<delivered, faults, api, imp, numericise, sources, tasks, dead, cycles, claimed>>

ErrorMessages == { <<"network", "timeout">>, <<"ERROR:", "Private", "video">> }

\* the processing function raised: mark_task_as_error
MarkTaskAsError(w, error_message) ==
    /\ wk[w].pc = "processing"
    /\ LET task == wk[w].task
           is_fatal == IsFatal(error_message)
       IN wk' = [wk EXCEPT ![w] =
            IF task.retry_count >= max_retries \/ is_fatal
            THEN CallDeadLetter(@, "error_dl", StrOfInt(task.id), error_message, "idle")
            ELSE CallUpdateRow(@, "retry", "tasks", StrOfInt(task.id),
                    [Status |-> STATUS_PENDING, RetryCount |-> task.retry_count + 1,
                     LastError |-> error_message], "idle")]
    /\ UNCHANGED <<delivered, faults, api, imp, numericise, sources, tasks, dead, cycles, claimed>>

(***************************************************************************)
(* SourceManager                                                           *)
(***************************************************************************)
\* What the resolver (yt-dlp) yields for a source URL; "" is a missing field.
Entry(id, url) == [id |-> id, webpage_url |-> url]

Entries(url) ==
    CASE url = "u1" -> << Entry("abc", "abc"), Entry("", "nid"), Entry("12", "12") >>
      [] url = "u2" -> << Entry("12", "12"), Entry("zz", "") >>
      [] url = "u3" -> << Entry("1_2", "1_2"), Entry("abc", "abc"), Entry("1_2", "1_2b") >>
      [] OTHER -> << >>

\* a phase that imports again whenever a source claim returned nothing
SourceNoneImportAgain(r) ==
    IF r.cphase \in {"exp1", "exp2"} THEN [W0 EXCEPT !.pc = "c_import", !.cphase = r.cphase]
    ELSE W0

\* the caller's continuation when get_next_source_to_expand returns None:
\* after the first claim of the expansion phase the import, after the second
\* the end of the phase
SourceNone(r) ==
    IF r.cphase = "exp1" THEN [W0 EXCEPT !.pc = "c_import", !.cphase = "exp1"]
    ELSE IF r.cphase = "exp2" THEN [W0 EXCEPT !.pc = "t_scan"]
    ELSE W0

\* entry of get_next_source_to_expand (after the jitter sleep)
GetNextSource_Call(w) ==
    /\ wk[w].pc = "idle"
    /\ cycles[w] < MaxCycles
    /\ cycles' = [cycles EXCEPT ![w] = @ + 1]
    /\ wk' = [wk EXCEPT ![w].pc = "s_scan"]
    /\ UNCHANGED <<delivered, faults, api, imp, numericise, sources, tasks, dead, claimed>>

\* a stall reset that leaves ClaimedBy and ClaimedAt as they are
GetNextSource_ScanKeepClaim(w) ==
    /\ wk[w].pc = "s_scan"
    /\ LET i == IndexOfStalled(sources)
           rec == sources[i]
       IN wk' = [wk EXCEPT ![w] =
            IF i = 0 \/ rec.RetryCount = Blank THEN [@ EXCEPT !.pc = "s_find"]
            ELSE CallUpdateRow([@ EXCEPT !.held = rec.ID, !.snap = StalledIds(sources)],
                    "src_reset", "sources",
                    StrOfRecordId(rec.ID),
                    [Status |-> STATUS_PENDING, RetryCount |-> rec.RetryCount + 1],
                    "s_find")]
    /\ UNCHANGED <<delivered, faults, api, imp, numericise, sources, tasks, dead, cycles, claimed>>

\* _find_stalled_source and _reset_stalled_source
GetNextSource_Scan(w) ==
    /\ wk[w].pc = "s_scan"
    /\ LET i == IndexOfStalled(sources)
           rec == sources[i]
       IN wk' = [wk EXCEPT ![w] =
            IF i = 0 \/ rec.RetryCount = Blank THEN [@ EXCEPT !.pc = "s_find"]
            ELSE CallUpdateRow([@ EXCEPT !.held = rec.ID, !.snap = StalledIds(sources)],
                    "src_reset", "sources",
                    StrOfRecordId(rec.ID),
                    [Status |-> STATUS_PENDING, ClaimedBy |-> "", ClaimedAt |-> Blank,
                     RetryCount |-> rec.RetryCount + 1], "s_find")]
    /\ UNCHANGED <<delivered, faults, api, imp, numericise, sources, tasks, dead, cycles, claimed>>

\* find_next_pending_source: findall(STATUS_PENDING) in the Status column
GetNextSource_Find(w) ==
    /\ wk[w].pc = "s_find"
    /\ LET i == IndexOfPending(sources)
       IN wk' = [wk EXCEPT ![w] =
            IF i = 0 THEN SourceNone(@)
            ELSE [@ EXCEPT !.pc = "s_row", !.uidx = SheetRow(i)]]
    /\ UNCHANGED <<delivered, faults, api, imp, numericise, sources, tasks, dead, cycles, claimed>>

\* find_next_pending_source: row_values(first_pending_cell.row); then the claim
GetNextSource_Row(w) ==
    /\ wk[w].pc = "s_row"
    /\ LET i == DataIndex(wk[w].uidx)
       IN wk' = [wk EXCEPT ![w] =
            IF RowIsEmpty(sources, i) THEN SourceNone(@)
            ELSE CallUpdateRow([@ EXCEPT !.tid = sources[i].ID],
                    "src_claim", "sources", sources[i].ID,
                    [Status |-> STATUS_IN_PROGRESS, ClaimedBy |-> w, ClaimedAt |-> Timestamp],
                    "s_reread")]
    /\ UNCHANGED <<delivered, faults, api, imp, numericise, sources, tasks, dead, cycles, claimed>>

\* _get_source_by_id, the ClaimedBy comparison and Source.from_dict
GetNextSource_Reread(w) ==
    /\ wk[w].pc = "s_reread"
    /\ LET r == wk[w]
           i == IndexOfId(sources, r.tid)
           ok == i # 0 /\ sources[i].ClaimedBy = w
       IN /\ wk' = [wk EXCEPT ![w] =
                IF ok THEN [W0 EXCEPT !.pc = "e_read", !.cphase = r.cphase,
                                      !.src = [some |-> TRUE, id |-> sources[i].ID,
                                               url |-> sources[i].URL]]
                ELSE SourceNone(r)]
          /\ claimed' = IF ok THEN claimed \cup {<<"sources", r.tid, w>>} ELSE claimed
    /\ UNCHANGED <<delivered, faults, api, imp, numericise, sources, tasks, dead, cycles>>

\* an extraction that tests the id only
ValidEntryIdOnly(e) == e.id # ""

\* _extract_videos_from_source: entries without id or webpage_url are skipped
ValidEntry(e) == e.id # "" /\ e.webpage_url # ""

ExtractVideos(source) ==
    LET es == SelectSeq(Entries(source.url), ValidEntry)
    IN [k \in 1..Len(es) |->
           [id |-> es[k].id, source_id |-> source.id, url |-> es[k].webpage_url]]

\* a loop that tests each task against the IDs read from the table only
RECURSIVE FillBatchNoAdd(_, _, _, _)
FillBatchNoAdd(existing, rest, batch, skipped) ==
    IF rest = << >> \/ Len(batch) >= video_task_batch_size
    THEN [existing |-> existing, rest |-> rest, batch |-> batch, skipped |-> skipped]
    ELSE IF Head(rest).id \notin existing
         THEN FillBatchNoAdd(existing, Tail(rest), Append(batch, Head(rest)), skipped)
         ELSE FillBatchNoAdd(existing, Tail(rest), batch, skipped + 1)

\* a loop that batches every task without the membership test
RECURSIVE FillBatchNoDedup(_, _, _, _)
FillBatchNoDedup(existing, rest, batch, skipped) ==
    IF rest = << >> \/ Len(batch) >= video_task_batch_size
    THEN [existing |-> existing, rest |-> rest, batch |-> batch, skipped |-> skipped]
    ELSE FillBatchNoDedup(existing \cup {Head(rest).id}, Tail(rest),
                          Append(batch, Head(rest)), skipped)

\* the loop of process_source_expansion up to its next append (or its end)
RECURSIVE FillBatch(_, _, _, _)
FillBatch(existing, rest, batch, skipped) ==
    IF rest = << >> \/ Len(batch) >= video_task_batch_size
    THEN [existing |-> existing, rest |-> rest, batch |-> batch, skipped |-> skipped]
    ELSE IF Head(rest).id \notin existing
         THEN FillBatch(existing \cup {Head(rest).id}, Tail(rest),
                        Append(batch, Head(rest)), skipped)
         ELSE FillBatch(existing, Tail(rest), batch, skipped + 1)

\* an ending that marks the source only when the expansion appended something
AfterFillMarkOnlyAdded(r, f) ==
    IF f.batch # << >>
    THEN [r EXCEPT !.pc = "e_append", !.existing = f.existing, !.rest = f.rest,
                   !.batch = f.batch, !.total_skipped = f.skipped]
    ELSE IF r.total_added = 0
         THEN [W0 EXCEPT !.pc = IF r.cphase = "" THEN "idle" ELSE "t_scan"]
         ELSE CallUpdateRow([r EXCEPT !.existing = {}, !.rest = << >>, !.batch = << >>,
                                      !.total_skipped = f.skipped],
                 "src_done", "sources", r.src.id, [Status |-> STATUS_DONE],
                 IF r.cphase = "" THEN "idle" ELSE "t_scan")

\* after the loop has run as far as it can: append the batch, or finish
AfterFill(r, f) ==
    IF f.batch # << >>
    THEN [r EXCEPT !.pc = "e_append", !.existing = f.existing, !.rest = f.rest,
                   !.batch = f.batch, !.total_skipped = f.skipped]
    ELSE CallUpdateRow([r EXCEPT !.existing = {}, !.rest = << >>, !.batch = << >>,
                                 !.total_skipped = f.skipped],
            "src_done", "sources", r.src.id, [Status |-> STATUS_DONE],
            IF r.cphase = "" THEN "idle" ELSE "t_scan")

\* get_video_tasks for the existing IDs, then the extraction
Expand_Read(w) ==
    /\ wk[w].pc = "e_read"
    /\ LET existing_video_ids == {StrOfRecordId(tasks[i].ID) : i \in 1..Len(tasks)}
           f == FillBatch(existing_video_ids, ExtractVideos(wk[w].src), << >>, 0)
       IN wk' = [wk EXCEPT ![w] = AfterFill([@ EXCEPT !.snap = existing_video_ids], f)]
    /\ UNCHANGED <<delivered, faults, api, imp, numericise, sources, tasks, dead, cycles, claimed>>

\* _add_video_tasks_batch_to_sheet: one append_rows call for the batch
NewTaskRows(batch) ==
    [k \in 1..Len(batch) |->
        [ID |-> batch[k].id, SourceID |-> batch[k].source_id, URL |-> batch[k].url,
         Status |-> STATUS_PENDING, ClaimedBy |-> "", ClaimedAt |-> Blank,
         RetryCount |-> 0, LastError |-> NoMsg]]

Expand_Append(w) ==
    /\ wk[w].pc = "e_append"
    /\ LET r == wk[w]
           f == FillBatch(r.existing, r.rest, << >>, r.total_skipped)
       IN /\ Len(tasks) + Len(r.batch) <= MaxRows
          /\ tasks' = tasks \o NewTaskRows(r.batch)
          /\ claimed' = Released(claimed, "tasks", {r.batch[k].id : k \in 1..Len(r.batch)})
          /\ wk' = [wk EXCEPT ![w] =
                AfterFill([r EXCEPT !.total_added = r.total_added + Len(r.batch),
                                    !.added = r.added \o NewTaskRows(r.batch)], f)]
          /\ delivered' = WithAppended(delivered, {r.batch[k].id : k \in 1..Len(r.batch)})
    /\ UNCHANGED <<faults, api, imp, numericise, sources, dead, cycles>>

\* a Source object where update_row expects an ID: it equals no cell of the ID column
SourceObject == "<Source>"

\* the except branch of process_source_expansion: the read of the tasks, the
\* resolver or an append raised; mark_source_as_error is given the Source itself
Expand_Raise(w) ==
    /\ wk[w].pc \in {"e_read", "e_append"}
    /\ faults < MaxFaults
    /\ faults' = faults + 1
    /\ wk' = [wk EXCEPT ![w] =
            CallUpdateRow([@ EXCEPT !.existing = {}, !.rest = << >>, !.batch = << >>],
                "src_error", "sources", SourceObject, [Status |-> STATUS_ERROR],
                IF @.cphase = "" THEN "idle" ELSE "t_scan")]
    /\ UNCHANGED <<delivered, api, imp, numericise, sources, tasks, dead, cycles, claimed>>

(***************************************************************************)
(* Coordinator.process_next_task                                           *)
(***************************************************************************)
\* entry of a work cycle
ProcessNextTask_Call(w) ==
    /\ wk[w].pc = "idle"
    /\ cycles[w] < MaxRuns
    /\ cycles' = [cycles EXCEPT ![w] = @ + 1]
    /\ wk' = [wk EXCEPT ![w].pc = "c_health"]
    /\ UNCHANGED <<delivered, faults, api, imp, numericise, sources, tasks, dead, claimed>>

\* _perform_health_check: the interval has not passed, or the heartbeat write
\* returned; then the probe of _ensure_tasks_are_available
PerformHealthCheck(w) ==
    /\ wk[w].pc = "c_health"
    /\ wk' = [wk EXCEPT ![w].pc = "c_probe"]
    /\ UNCHANGED <<delivered, faults, api, imp, numericise, sources, tasks, dead, cycles, claimed>>

\* find_next_pending_task of the probe: findall
EnsureTasks_Find(w) ==
    /\ wk[w].pc = "c_probe"
    /\ LET i == IndexOfPending(tasks)
       IN wk' = [wk EXCEPT ![w] =
            IF i = 0 THEN [@ EXCEPT !.pc = "s_scan", !.cphase = "exp1"]
            ELSE [@ EXCEPT !.pc = "c_row", !.uidx = SheetRow(i)]]
    /\ UNCHANGED <<delivered, faults, api, imp, numericise, sources, tasks, dead, cycles, claimed>>

\* find_next_pending_task of the probe: row_values
EnsureTasks_Row(w) ==
    /\ wk[w].pc = "c_row"
    /\ wk' = [wk EXCEPT ![w] =
            IF RowIsEmpty(tasks, DataIndex(@.uidx))
            THEN [W0 EXCEPT !.pc = "s_scan", !.cphase = "exp1"]
            ELSE [W0 EXCEPT !.pc = "t_scan"]]
    /\ UNCHANGED <<delivered, faults, api, imp, numericise, sources, tasks, dead, cycles, claimed>>

\* _import_sources, then the second source claim.  The configuration has no
\* sources_file_path (the default), so the import returns at once.
ImportSources(w) ==
    /\ wk[w].pc = "c_import"
    /\ wk' = [wk EXCEPT ![w] = [W0 EXCEPT !.pc = "s_scan", !.cphase = "exp2"]]
    /\ UNCHANGED <<delivered, faults, api, imp, numericise, sources, tasks, dead, cycles, claimed>>

\* An exception leaves process_next_task: the worker's loop is gone.
Raised == [W0 EXCEPT !.pc = "raised"]

\* Where a store call that raises is caught, by the position of the call:
\* the health check and the stall recovery of get_next_task and of
\* get_next_source_to_expand (the scan's read, the reset, the dead-letter
\* move) run outside every try; find_next_pending_*, the claim with its
\* re-read and the mark_* methods catch and carry on.
AfterStoreError(r) ==
    CASE r.pc \in {"c_health", "s_scan", "t_scan"} -> Raised
      [] r.pc \in {"c_probe", "c_row"} -> [W0 EXCEPT !.pc = "s_scan", !.cphase = "exp1"]
      [] r.pc \in {"s_find", "s_row", "s_reread"} -> SourceNone(r)
      [] r.pc \in {"t_find", "t_row", "t_reread"} -> W0
      [] r.op \in {"stall_reset", "stall_dl"} -> Raised
      [] r.op = "claim" -> W0
      [] r.op = "src_claim" -> SourceNone(r)
      [] OTHER -> UReturn(r)

StoreCallPcs ==
    {"c_health", "c_probe", "c_row", "s_scan", "s_find", "s_row", "s_reread",
     "t_scan", "t_find", "t_row", "t_reread",
     "u_read", "u_write", "d_read", "d_row", "d_append", "d_delete"}

\* the store call a worker is about to issue raises (gspread APIError)
StoreCallRaises(w) ==
    /\ faults < MaxFaults
    /\ wk[w].pc \in StoreCallPcs
    /\ faults' = faults + 1
    /\ wk' = [wk EXCEPT ![w] = AfterStoreError(@)]
    /\ UNCHANGED <<delivered, api, imp, numericise, sources, tasks, dead, cycles, claimed>>

\* process_next_task is over for the worker: it returned, or an exception left it
ProcessNextTaskReturns(w) == wk[w].pc # "idle" /\ wk'[w].pc = "idle"

\* "if not task: return False" ... "return True"
ReturnValue(w) == wk[w].task.some

\* One unit of time passes: every stored timestamp, and every timestamp a
\* worker is carrying towards the store, is one unit older.  Ages beyond the
\* timeout are not distinguished.
Older(t) == IF t = Blank \/ t > stalled_task_timeout THEN t ELSE t + 1

AgeRow(row) == [row EXCEPT !.ClaimedAt = Older(@)]

AgeTable(tbl) == [i \in 1..Len(tbl) |-> AgeRow(tbl[i])]

AgeWorker(r) ==
    [r EXCEPT !.uupd = IF "ClaimedAt" \in DOMAIN @
                       THEN [@ EXCEPT !.ClaimedAt = Older(@)] ELSE @,
              !.drow = AgeRow(@)]

Tick ==
    /\ sources' = AgeTable(sources)
    /\ tasks' = AgeTable(tasks)
    /\ dead' = AgeTable(dead)
    /\ wk' = [w \in Workers |-> AgeWorker(wk[w])]
    /\ UNCHANGED <<delivered, faults, api, imp, numericise, cycles, claimed>>

(***************************************************************************)
(* The operations shared by every specification below.                     *)
(***************************************************************************)
StoreSteps(w) ==
    \/ UpdateRow_Read(w)
    \/ UpdateRow_Write(w)
    \/ DeadLetter_Read(w)
    \/ DeadLetter_Row(w)
    \/ DeadLetter_Append(w)
    \/ DeadLetter_Delete(w)

TaskSteps(w) ==
    \/ GetNextTask_Scan(w)
    \/ GetNextTask_Find(w)
    \/ GetNextTask_Row(w)
    \/ GetNextTask_Reread(w)
    \/ MarkTaskAsDone(w)
    \/ \E m \in ErrorMessages : MarkTaskAsError(w, m)

SourceSteps(w) ==
    \/ GetNextSource_Scan(w)
    \/ GetNextSource_Find(w)
    \/ GetNextSource_Row(w)
    \/ GetNextSource_Reread(w)
    \/ Expand_Read(w)
    \/ Expand_Append(w)

(***************************************************************************)
(* SpecTask: workers drive the TaskManager on a Video Tasks table that is  *)
(* already populated.                                                      *)
(***************************************************************************)
TaskRow(id, sid, rc) ==
    [ID |-> id, SourceID |-> sid, URL |-> id, Status |-> STATUS_PENDING, ClaimedBy |-> "",
     ClaimedAt |-> Blank, RetryCount |-> rc, LastError |-> NoMsg]

TaskIds == {"abc", "12", "1_2"}

InitTaskTables ==
    { <<TaskRow(a, "10", rc)>> : a \in TaskIds, rc \in 0..max_retries }
    \cup { <<TaskRow("12", "10", max_retries), TaskRow("abc", "10", 0)>>,
           <<TaskRow("12", "10", 0), TaskRow("abc", "10", max_retries)>> }

InitTask ==
    /\ numericise \in BOOLEAN
    /\ sources = << >>
    /\ tasks \in InitTaskTables
    /\ dead = << >>
    /\ wk = [w \in Workers |-> W0]
    /\ cycles = [w \in Workers |-> 0]
    /\ claimed = {}
    /\ faults = 0
    /\ api = Api0
    /\ imp = Imp0
    /\ delivered = NoneDelivered(tasks)

NextTask ==
    \/ Tick
    \/ \E w \in Workers :
        \/ GetNextTask_Call(w)
        \/ TaskSteps(w)
        \/ StoreSteps(w)

SpecTask == InitTask /\ [][NextTask]_vars

(***************************************************************************)
(* SpecSource: workers drive the SourceManager (claim a source, expand it). *)
(***************************************************************************)
SourceRow(id, url, rc) ==
    [ID |-> id, SourceID |-> "", URL |-> url, Status |-> STATUS_PENDING, ClaimedBy |-> "",
     ClaimedAt |-> Blank, RetryCount |-> rc, LastError |-> NoMsg]

InitSourceTables ==
    { <<SourceRow(a, "u1", rc), SourceRow("s2", "u2", rc)>> :
         a \in {"s1", "10", "1_0"}, rc \in {Blank, 0} }
    \cup { <<SourceRow("s1", "u3", 0), SourceRow("s2", "u3", 0)>>,
           <<SourceRow("s1", "u0", 0)>> }

InitSource ==
    /\ numericise \in BOOLEAN
    /\ sources \in InitSourceTables
    /\ tasks = << >>
    /\ dead = << >>
    /\ wk = [w \in Workers |-> W0]
    /\ cycles = [w \in Workers |-> 0]
    /\ claimed = {}
    /\ faults = 0
    /\ api = Api0
    /\ imp = Imp0
    /\ delivered = NoneDelivered(tasks)

NextSource ==
    \/ Tick
    \/ \E w \in Workers :
        \/ GetNextSource_Call(w)
        \/ SourceSteps(w)
        \/ Expand_Raise(w)
        \/ UpdateRow_Read(w)
        \/ UpdateRow_Write(w)

SpecSource == InitSource /\ [][NextSource]_vars

(***************************************************************************)
(* Spec: workers run Coordinator.process_next_task cycles.                 *)
(***************************************************************************)
Init ==
    /\ numericise \in BOOLEAN
    /\ sources \in { <<SourceRow("10", "u2", 0), SourceRow("1_0", "u2", 0)>>,
                    <<SourceRow("1_0", "u3", 0)>> }
    /\ tasks = << >>
    /\ dead = << >>
    /\ wk = [w \in Workers |-> W0]
    /\ cycles = [w \in Workers |-> 0]
    /\ claimed = {}
    /\ faults = 0
    /\ api = Api0
    /\ imp = Imp0
    /\ delivered = NoneDelivered(tasks)

Next ==
    \/ Tick
    \/ \E w \in Workers :
        \/ ProcessNextTask_Call(w)
        \/ PerformHealthCheck(w)
        \/ EnsureTasks_Find(w)
        \/ EnsureTasks_Row(w)
        \/ ImportSources(w)
        \/ SourceSteps(w)
        \/ TaskSteps(w)
        \/ StoreSteps(w)

Spec == Init /\ [][Next]_vars

(***************************************************************************)
(* SpecRecover: rows were left in-progress by a worker that has stopped;   *)
(* the other worker keeps running claim cycles, and time passes.           *)
(***************************************************************************)
Stopped == "w2"
Runner == "w1"

\* the row as the stopped worker's claim write left it
LeftInProgress(row) ==
    [row EXCEPT !.Status = STATUS_IN_PROGRESS, !.ClaimedBy = Stopped, !.ClaimedAt = Timestamp]

\* the orchestrator loop calls get_next_task again
KeepRunning_Task(w) ==
    /\ wk[w].pc = "idle"
    /\ wk' = [wk EXCEPT ![w].pc = "t_scan"]
    /\ UNCHANGED <<delivered, faults, api, imp, numericise, sources, tasks, dead, cycles, claimed>>

\* the orchestrator loop calls get_next_source_to_expand again
KeepRunning_Source(w) ==
    /\ wk[w].pc = "idle"
    /\ wk' = [wk EXCEPT ![w].pc = "s_scan"]
    /\ UNCHANGED <<delivered, faults, api, imp, numericise, sources, tasks, dead, cycles, claimed>>

InitRecover ==
    /\ numericise = FALSE
    /\ sources \in { << LeftInProgress(SourceRow("s1", "u2", rc)),
                        LeftInProgress(SourceRow("s2", "u0", 0)) >> : rc \in {Blank, 0} }
    /\ tasks \in { << LeftInProgress(TaskRow("12", "10", rc)),
                      LeftInProgress(TaskRow("abc", "10", 0)) >> : rc \in 0..max_retries }
    /\ dead = << >>
    /\ wk = [w \in Workers |-> W0]
    /\ cycles = [w \in Workers |-> 0]
    /\ claimed = {}
    /\ faults = 0
    /\ api = Api0
    /\ imp = Imp0
    /\ delivered = NoneDelivered(tasks)

RunnerStep ==
    \/ KeepRunning_Task(Runner)
    \/ KeepRunning_Source(Runner)
    \/ TaskSteps(Runner)
    \/ SourceSteps(Runner)
    \/ StoreSteps(Runner)

NextRecover ==
    \/ Tick
    \/ RunnerStep

\* the running worker is never held up, it runs both kinds of claim cycle
\* again and again, and time passes
SpecRecover ==
    /\ InitRecover /\ [][NextRecover]_vars
    /\ WF_vars(Tick)
    /\ WF_vars(RunnerStep)
    /\ SF_vars(KeepRunning_Task(Runner))
    /\ SF_vars(KeepRunning_Source(Runner))

(***************************************************************************)
(* SpecRate: one SheetClient executes operations one after the other.      *)
(***************************************************************************)
InitRate ==
    /\ numericise = FALSE
    /\ sources = << >>
    /\ tasks = << >>
    /\ dead = << >>
    /\ wk = [w \in Workers |-> W0]
    /\ cycles = [w \in Workers |-> 0]
    /\ claimed = {}
    /\ faults = 0
    /\ api = Api0
    /\ imp = Imp0
    /\ delivered = NoneDelivered(tasks)

NextRate ==
    \/ \E op \in ApiOperations : Api_Begin(op)
    \/ Api_Wait
    \/ Api_StoreCall
    \/ Api_Tick

SpecRate == InitRate /\ [][NextRate]_vars

(***************************************************************************)
(* SpecImport: imports from a sources file that is edited between calls.   *)
(***************************************************************************)
InitImport ==
    /\ numericise = FALSE
    /\ sources \in { << >>, <<SourceRow("s1", "u1", 0)>> }
    /\ tasks = << >>
    /\ dead = << >>
    /\ wk = [w \in Workers |-> W0]
    /\ cycles = [w \in Workers |-> 0]
    /\ claimed = {}
    /\ faults = 0
    /\ api = Api0
    /\ imp \in { [Imp0 EXCEPT !.file = f] : f \in SourcesFiles }
    /\ delivered = NoneDelivered(tasks)

NextImport ==
    \/ Import_FileEdit
    \/ Import_Call
    \/ Import_Read
    \/ Import_Line
    \/ Import_StoreRaises
    \/ Import_WriteHash

SpecImport == InitImport /\ [][NextImport]_vars

(***************************************************************************)
(* SpecFault: the Coordinator's work cycles when a call of the store or of *)
(* the resolver may raise.                                                 *)
(***************************************************************************)
InitFault ==
    /\ numericise \in BOOLEAN
    /\ sources = <<SourceRow("1_0", "u2", 0)>>
    /\ tasks = << >>
    /\ dead = << >>
    /\ wk = [w \in Workers |-> W0]
    /\ cycles = [w \in Workers |-> 0]
    /\ claimed = {}
    /\ faults = 0
    /\ api = Api0
    /\ imp = Imp0
    /\ delivered = NoneDelivered(tasks)

NextFault ==
    \/ Next
    \/ \E w \in Workers :
        \/ StoreCallRaises(w)
        \/ Expand_Raise(w)

SpecFault == InitFault /\ [][NextFault]_vars

(***************************************************************************)
(* Properties.                                                             *)
(***************************************************************************)
\* the step is worker w returning from the store operation it is in
OpEnds(w) == wk[w].op # "" /\ wk'[w].op = ""

\* the step is worker w leaving position p
Leaves(w, p) == wk[w].pc = p /\ wk'[w].pc # p

RowsWithId(tbl, id) == {j \in 1..Len(tbl) : tbl[j].ID = id}

\* C1: at most one worker holds a successful claim (a row returned by the
\* claim routine after the re-read) for a row ID of a table, as long as the
\* row has not been released in between.
ExclusiveClaim ==
    \A c1 \in claimed : \A c2 \in claimed :
        (c1[1] = c2[1] /\ c1[2] = c2[2]) => c1[3] = c2[3]

\* C2: a recoverable failure (the retry branch of mark_task_as_error) and a
\* stall reset of a task leave the task's row pending with its stored
\* RetryCount one above the value stored just before the operation wrote,
\* and a recoverable failure leaves its message in LastError.
RetryRaisesByOne ==
    [][\A w \in Workers :
         (OpEnds(w) /\ wk[w].op \in {"retry", "stall_reset"}) =>
            \A j \in RowsWithId(tasks, wk[w].held) :
               /\ j <= Len(tasks')
               /\ tasks'[j].ID = wk[w].held
               /\ tasks'[j].Status = STATUS_PENDING
               /\ tasks'[j].RetryCount = tasks[j].RetryCount + 1
               /\ (wk[w].op = "retry" => tasks'[j].LastError = wk[w].uupd.LastError)
      ]_vars

\* C3: when mark_task_as_error returns for a claimed task whose retry count
\* had reached max_retries, the task is in the dead-letter table and not in
\* the live table; when it returns for a task with retry count
\* max_retries - 1 and a non-fatal message, the task is pending with retry
\* count max_retries.
ExhaustedFailureDeadLetters ==
    [][\A w \in Workers :
         OpEnds(w) =>
            /\ (wk[w].op = "error_dl" /\ wk[w].task.retry_count >= max_retries) =>
                  /\ wk[w].held \notin IdsOf(tasks')
                  /\ wk[w].held \in IdsOf(dead')
            /\ (wk[w].op = "retry" /\ wk[w].task.retry_count = max_retries - 1) =>
                  \E j \in RowsWithId(tasks', wk[w].held) :
                     /\ tasks'[j].Status = STATUS_PENDING
                     /\ tasks'[j].RetryCount = max_retries
      ]_vars

\* C4: when mark_task_as_error returns for a failure whose message contains
\* a fatal substring, whatever the task's retry count, the task is in the
\* dead-letter table and not in the live table (so neither pending nor
\* with a raised retry count).
FatalFailureDeadLetters ==
    [][\A w \in Workers :
         (OpEnds(w) /\ wk[w].op = "error_dl" /\ IsFatal(wk[w].dmsg)) =>
            /\ wk[w].held \notin IdsOf(tasks')
            /\ wk[w].held \in IdsOf(dead')
      ]_vars

\* C5: when the stall recovery of get_next_task has found a stalled task
\* whose RetryCount + 1 exceeds max_retries, it returns with the task in the
\* dead-letter table and not in the live table, and the routine goes on to
\* look for a pending task.
StallExhaustedDeadLetters ==
    [][\A w \in Workers :
         (OpEnds(w) /\ wk[w].op = "stall_dl") =>
            /\ wk[w].held \notin IdsOf(tasks')
            /\ wk[w].held \in IdsOf(dead')
            /\ wk'[w].pc = "t_find"
      ]_vars

\* C6: every row that a stall recovery overwrites (reset to pending) or
\* deletes (dead-letter) is, when it is written, in-progress with a claim
\* older than the stall timeout.
StallRecoveryOnlyStalled ==
    [][\A w \in Workers :
         LET i == DataIndex(wk[w].uidx)
             tbl == Table(wk[w].utbl)
         IN /\ (Leaves(w, "u_write") /\ wk[w].op \in {"stall_reset", "src_reset"}) =>
                  (i <= Len(tbl) /\ IsStalled(tbl[i]))
            /\ (Leaves(w, "d_delete") /\ wk[w].op = "stall_dl") =>
                  (i <= Len(tasks) => IsStalled(tasks[i]))
      ]_vars

\* C7: once a task ID is in the dead-letter table and gone from the live
\* table, no later step brings a live row with that ID back and no worker
\* gets a claim on it.
DeadLetterIsTerminal ==
    [][\A id \in IdsOf(dead) \ IdsOf(tasks) :
         /\ id \notin IdsOf(tasks')
         /\ \A w \in Workers : <<"tasks", id, w>> \in claimed' => <<"tasks", id, w>> \in claimed
      ]_vars

\* C8: the IDs of the rows of the live Video Tasks table are pairwise
\* distinct.
LiveTaskIdsUnique ==
    \A i \in 1..Len(tasks) : \A j \in 1..Len(tasks) :
        tasks[i].ID = tasks[j].ID => i = j

\* the resolver entries of a source that have both an id and a URL
UsableEntries(url) ==
    SelectSeq(Entries(url), LAMBDA e : e.id # "" /\ e.webpage_url # "")

UsableIds(url) == {UsableEntries(url)[k].id : k \in 1..Len(UsableEntries(url))}

\* worker w has finished the batches of an expansion and is marking the source done
ExpansionDone(w) == wk[w].op = "src_done"

\* C9: an expansion that runs on a table already holding every usable entry
\* of the source (the table a first run over the same entries leaves)
\* skips every entry and appends no row.
SecondExpansionAppendsNothing ==
    \A w \in Workers :
        (ExpansionDone(w) /\ UsableIds(wk[w].src.url) \subseteq wk[w].snap) =>
            /\ wk[w].added = << >>
            /\ wk[w].total_added = 0
            /\ wk[w].total_skipped = Len(UsableEntries(wk[w].src.url))

\* a second run over a source with usable entries has finished
SecondExpansionDone ==
    \E w \in Workers :
        /\ ExpansionDone(w)
        /\ UsableIds(wk[w].src.url) # {}
        /\ UsableIds(wk[w].src.url) \subseteq wk[w].snap
        /\ wk[w].total_skipped = 3

\* C10: a finished expansion has appended exactly one row for each usable
\* entry ID that was not in the table it read, none for an entry without id
\* or URL, and every appended row has the source's ID as SourceID, status
\* pending and retry count 0.
ExpansionAppendsNewUsableEntries ==
    \A w \in Workers :
        ExpansionDone(w) =>
            LET r == wk[w]
                new == UsableIds(r.src.url) \ r.snap
            IN /\ {r.added[k].ID : k \in 1..Len(r.added)} = new
               /\ Len(r.added) = Cardinality(new)
               /\ r.total_added = Len(r.added)
               /\ \A k \in 1..Len(r.added) :
                    /\ r.added[k].SourceID = r.src.id
                    /\ r.added[k].Status = STATUS_PENDING
                    /\ r.added[k].RetryCount = 0
                    /\ \E n \in 1..Len(Entries(r.src.url)) :
                          /\ Entries(r.src.url)[n].id = r.added[k].ID
                          /\ Entries(r.src.url)[n].webpage_url = r.added[k].URL

\* three entries of which one lacks an id, on an empty table: two rows
ExpansionOfThreeAddsTwo ==
    \E w \in Workers :
        /\ ExpansionDone(w)
        /\ wk[w].src.url = "u1"
        /\ wk[w].snap = {}
        /\ Len(wk[w].added) = 2
        /\ tasks = wk[w].added


\* C11: when the expansion of a claimed source fails, the source's row has
\* Status error at the time process_source_expansion returns (False).
FailedExpansionMarksError ==
    [][\A w \in Workers :
          (wk[w].op = "src_error" /\ OpEnds(w))
              => \A i \in 1..Len(sources') :
                     sources'[i].ID = wk[w].src.id => sources'[i].Status = STATUS_ERROR]_vars


\* C12: whenever process_source_expansion returns without a failure, also when
\* the source had no usable entry or every entry was a duplicate, the source's
\* row exists and has Status done at that moment.
ExpansionReturns(w) == wk[w].src.some /\ ~wk'[w].src.some

CompletedExpansionMarksDone ==
    [][\A w \in Workers :
          (ExpansionReturns(w) /\ wk[w].op # "src_error")
              => /\ RowsWithId(sources', wk[w].src.id) # {}
                 /\ \A i \in RowsWithId(sources', wk[w].src.id) :
                        sources'[i].Status = STATUS_DONE]_vars

\* a source without any entry has been expanded and marked
ZeroEntrySourceDone ==
    \E i \in 1..Len(sources) :
        sources[i].URL = "u0" /\ sources[i].Status = STATUS_DONE

\* a source whose entries were all in the table already has been marked
AllDuplicatesSourceDone ==
    \E i \in 1..Len(sources) :
        /\ sources[i].ID = "s2" /\ sources[i].URL = "u3" /\ sources[i].Status = STATUS_DONE
        /\ Len(tasks) = 2


\* C13 (as stated): in every Source row ClaimedBy is set exactly when ClaimedAt
\* is set, and both are empty exactly when Status is pending, done or error.
SourceClaimFieldsFollowStatus ==
    \A i \in 1..Len(sources) :
        /\ (sources[i].ClaimedBy # "") <=> (sources[i].ClaimedAt # Blank)
        /\ (sources[i].ClaimedBy = "" /\ sources[i].ClaimedAt = Blank)
               <=> sources[i].Status \in {STATUS_PENDING, STATUS_DONE, STATUS_ERROR}

\* C13 (amended): in every Source row ClaimedBy is set exactly when ClaimedAt
\* is set; both are set while Status is in-progress and both are empty while
\* Status is pending.  Marking a source done writes Status alone.
SourceClaimFieldsWhileLive ==
    \A i \in 1..Len(sources) :
        /\ (sources[i].ClaimedBy # "") <=> (sources[i].ClaimedAt # Blank)
        /\ sources[i].Status = STATUS_IN_PROGRESS => sources[i].ClaimedBy # ""
        /\ sources[i].Status = STATUS_PENDING => sources[i].ClaimedBy = ""

\* one source has been claimed, stall-reset and is pending again while another
\* has been claimed and marked done
ResetAndDoneSources ==
    /\ \E i \in 1..Len(sources) :
          sources[i].Status = STATUS_PENDING /\ sources[i].RetryCount > 0
    /\ \E j \in 1..Len(sources) :
          sources[j].Status = STATUS_DONE /\ sources[j].ClaimedBy # ""


\* C14: process_next_task returns False exactly when get_next_task handed it
\* no task.  When a task was claimed, the processing function is given the
\* URL of the claimed row, its normal return is followed by mark_task_as_done
\* and its exception by mark_task_as_error with the exception's message, and
\* the call returns True in both cases.
ClaimedRowUrl(w) ==
    (wk[w].pc = "t_reread" /\ wk'[w].pc = "processing")
        => \E i \in 1..Len(tasks) :
              /\ RecEq(tasks[i].ID, wk[w].tid) /\ tasks[i].ClaimedBy = w
              /\ wk'[w].task.url = tasks[i].URL

OutcomeFollowsProcessing(w) ==
    (wk[w].pc = "processing" /\ wk'[w].pc # "processing")
        => \/ /\ wk'[w].op = "done"
              /\ wk'[w].urow = StrOfInt(wk[w].task.id)
              /\ wk'[w].uupd = [Status |-> STATUS_DONE]
           \/ /\ wk'[w].op = "retry"
              /\ wk'[w].urow = StrOfInt(wk[w].task.id)
              /\ wk'[w].uupd.LastError \in ErrorMessages
           \/ /\ wk'[w].op = "error_dl"
              /\ wk'[w].urow = StrOfInt(wk[w].task.id)
              /\ wk'[w].dmsg \in ErrorMessages

NoFailureLeavesWorkCycle == \A w \in Workers : wk[w].pc # "raised"


\* C16: the row that a dead-lettering (by mark_task_as_error or by the stall
\* recovery) appends to the dead-letter table carries the ID of the task being
\* quarantined and the error message of the quarantine.
DeadLetterRowCarriesTaskAndError ==
    [][\A w \in Workers :
          Leaves(w, "d_append") =>
              /\ dead'[Len(dead')].ID = wk[w].held
              /\ dead'[Len(dead')].LastError = wk[w].dmsg]_vars


\* C20: a worker whose re-read after the claim write shows another ClaimedBy,
\* or no row, gets no task and does nothing more in that cycle; and every
\* outcome a worker records (Status done, the retry reset with its count,
\* the dead-letter move) lands on the row whose claim that worker verified.
VerifiedClaim(w) ==
    LET i == IndexOfId(tasks, wk[w].tid)
    IN i # 0 /\ tasks[i].ClaimedBy = w

HitRowId(w) ==
    LET i == DataIndex(wk[w].uidx)
    IN IF i \in 1..Len(tasks) THEN tasks[i].ID ELSE wk[w].held

OnlyVerifiedWorkerRecordsOutcome ==
    [][\A w \in Workers :
          /\ (wk[w].pc = "t_reread" /\ wk'[w].pc # "t_reread" /\ ~VerifiedClaim(w))
                => wk'[w] = W0
          /\ (wk'[w].pc = "processing" /\ wk[w].pc # "processing")
                => wk[w].pc = "t_reread" /\ VerifiedClaim(w)
          /\ (Leaves(w, "u_write") /\ wk[w].op \in {"done", "retry"})
                => HitRowId(w) = wk[w].held
          /\ (Leaves(w, "d_append") /\ wk[w].op = "error_dl")
                => wk[w].drow.ID = wk[w].held
          /\ (Leaves(w, "d_delete") /\ wk[w].op = "error_dl")
                => HitRowId(w) = wk[w].held]_vars


\* C17: a row left in-progress by a stopped worker, once stalled, eventually
\* leaves in-progress (reset to pending, or moved to the dead-letter table),
\* as long as some worker keeps running claim cycles; also when several rows
\* are stalled at once.
StalledRowsEventuallyRecovered ==
    /\ \A j \in 1..MaxRows :
          [](  (j <= Len(sources) /\ IsStalled(sources[j]))
               => <>(j > Len(sources) \/ sources[j].Status # STATUS_IN_PROGRESS))
    /\ \A id \in TaskIds :
          [](  (\E i \in 1..Len(tasks) : tasks[i].ID = id /\ IsStalled(tasks[i]))
               => <>(\A i \in 1..Len(tasks) :
                        tasks[i].ID = id => tasks[i].Status # STATUS_IN_PROGRESS))


\* C18: every store call of one client is issued at least api_wait_seconds
\* after the previous store call of that client.
StoreCallsSpaced ==
    [][(ApiItem = "call" /\ api'.k # api.k) => api.gap >= api_wait_seconds]_vars


ImportCalled == imp.pc = "idle" /\ imp'.file = imp.file
ImportReturns == imp.pc # "idle" /\ imp'.pc = "idle"

\* C19 (as stated): a call of import_sources_from_file made when the file's
\* hash equals the recorded hash changes neither the Sources table nor the
\* recorded hash; a call made when it differs proceeds with the import, and
\* when it returns the recorded hash is the hash of the file's content.
ImportRecordsHashOfFile ==
    [][/\ (ImportCalled /\ imp.hash_file = FileHash(imp.file))
            => (sources' = sources /\ imp' = imp)
       /\ (ImportCalled /\ imp.hash_file # FileHash(imp.file)) => imp'.pc = "i_read"
       /\ ImportReturns => imp'.hash_file = FileHash(imp'.file)]_vars

\* C19 (amended): the same, except that the recorded hash becomes the hash
\* of the file's content only when the import ran to its end; when it
\* returns because a store call raised or because a line does not have
\* exactly three parts, the recorded hash is what it was before the call.
ImportRecordsHashWhenComplete ==
    [][/\ (ImportCalled /\ imp.hash_file = FileHash(imp.file))
            => (sources' = sources /\ imp' = imp)
       /\ (ImportCalled /\ imp.hash_file # FileHash(imp.file)) => imp'.pc = "i_read"
       /\ (ImportReturns /\ imp.pc = "i_hash") => imp'.hash_file = FileHash(imp'.file)
       /\ (ImportReturns /\ imp.pc # "i_hash")
            => (imp'.hash_file = imp.hash_file /\ imp'.hash_file # FileHash(imp'.file))]_vars

\* an import of a file with two new sources has run to its end
ImportOfTwoRecorded ==
    /\ imp.pc = "idle"
    /\ Len(imp.file) = 2
    /\ imp.hash_file = FileHash(imp.file)
    /\ \E i \in 1..Len(sources), j \in 1..Len(sources) :
          /\ i # j /\ sources[i].ID = "" /\ sources[j].ID = ""
          /\ sources[i].URL = imp.file[1][1] /\ sources[j].URL = imp.file[2][1]


\* C21: a task is returned to pending at most max_retries times before it is
\* done or dead-lettered: the RetryCount of every live task row is at most
\* max_retries, and no task is delivered (returned by get_next_task to the
\* caller that runs the processing function) more than max_retries + 1 times.
RetriesAndDeliveriesBounded ==
    /\ \A i \in 1..Len(tasks) : tasks[i].RetryCount <= max_retries
    /\ \A id \in DOMAIN delivered : delivered[id] <= max_retries + 1


\* C22: the row that a stall reset writes, in the Sources table as in the
\* Video Tasks table, has Status pending, an empty ClaimedBy and an empty
\* ClaimedAt once the write is done.
StallResetClearsClaim ==
    [][\A w \in Workers :
          (Leaves(w, "u_write") /\ wk[w].op \in {"stall_reset", "src_reset"}) =>
              LET i == DataIndex(wk[w].uidx)
                  row == IF wk[w].utbl = "sources" THEN sources'[i] ELSE tasks'[i]
              IN /\ row.Status = STATUS_PENDING
                 /\ row.ClaimedBy = ""
                 /\ row.ClaimedAt = Blank]_vars


RowsOfId(tbl, id) == {tbl[j] : j \in RowsWithId(tbl, id)}

\* C23: the stall recovery of one claim cycle touches one stalled row only:
\* no step of the recovery (the reset write, or the append and the delete of
\* the dead-letter move) changes or removes a row that the cycle's scan saw
\* stalled, other than the first one it found.
StallRecoveryTouchesOneRow ==
    [][\A w \in Workers :
          (wk[w].op \in {"stall_reset", "stall_dl", "src_reset"} /\ wk'[w].pc # wk[w].pc) =>
              \A id \in wk[w].snap \ {wk[w].held} :
                  IF wk[w].utbl = "sources"
                  THEN RowsOfId(sources', id) = RowsOfId(sources, id)
                  ELSE RowsOfId(tasks', id) = RowsOfId(tasks, id)]_vars


\* Where a worker is in its work cycle: 1 health check, 2 pending-task probe,
\* 3 first source claim, 4 file import, 5 second source claim, 6 expansion,
\* 7 task claim, 8 processing, 9 recording the outcome; 0 outside a cycle.
CyclePhase(r) ==
    CASE r.pc = "c_health" -> 1
      [] r.pc \in {"c_probe", "c_row"} -> 2
      [] r.pc \in {"s_scan", "s_find", "s_row", "s_reread"} \/ r.op \in {"src_reset", "src_claim"}
            -> IF r.cphase = "exp1" THEN 3 ELSE 5
      [] r.pc = "c_import" -> 4
      [] r.pc \in {"e_read", "e_append"} \/ r.op \in {"src_done", "src_error"} -> 6
      [] r.pc \in {"t_scan", "t_find", "t_row", "t_reread"}
            \/ r.op \in {"stall_reset", "stall_dl", "claim"} -> 7
      [] r.pc = "processing" -> 8
      [] r.op \in {"done", "retry", "error_dl"} -> 9
      [] OTHER -> 0

CycleOrder ==
    { <<0, 1>>, <<1, 2>>, <<2, 3>>, <<2, 7>>, <<3, 4>>, <<3, 6>>, <<4, 5>>, <<5, 6>>,
      <<5, 7>>, <<6, 7>>, <<7, 8>>, <<7, 0>>, <<8, 9>>, <<9, 0>> }

\* the probe of the step's worker found no pending task
ProbeFoundNothing(w) ==
    \/ wk[w].pc = "c_probe" /\ IndexOfPending(tasks) = 0
    \/ wk[w].pc = "c_row" /\ RowIsEmpty(tasks, DataIndex(wk[w].uidx))

\* C24: a process_next_task cycle runs health check, probe, then (only when
\* the probe found no pending task) the expansion phase, then the task claim.
\* The expansion phase is a source claim, then, only when that claim returned
\* nothing, the import and a second, last source claim; at most one source is
\* expanded; when the probe found a pending task the cycle goes from the
\* probe straight to the task claim.
WorkCycleOrder ==
    [][\A w \in Workers :
          LET a == CyclePhase(wk[w])
              b == CyclePhase(wk'[w])
          IN a # b =>
               /\ <<a, b>> \in CycleOrder
               /\ (a = 2 /\ b = 3) => ProbeFoundNothing(w)
               /\ (a = 2 /\ b = 7) => ~ProbeFoundNothing(w)
               /\ (a = 3 /\ b = 4) => ~wk'[w].src.some
               /\ b = 6 => (wk[w].pc = "s_reread" /\ wk'[w].src.some)]_vars

\* a worker's first source claim returned nothing, the import ran, and the
\* second claim got a source, which the worker is expanding
ExpandingAfterImport ==
    \E w \in Workers : wk[w].pc = "e_read" /\ wk[w].cphase = "exp2"


\* C25: a dead-letter move that finds no live row with the task's ID returns
\* at once, appending nothing, deleting nothing and raising nothing; and
\* however two workers' moves of the same task interleave, the dead-letter
\* table holds no more than one row for a task ID.
DeadLetterOnceForTask ==
    [][/\ \A w \in Workers :
            (Leaves(w, "d_read") /\ IndexOfId(tasks, wk[w].urow) = 0) =>
                (dead' = dead /\ tasks' = tasks /\ wk'[w].pc = wk[w].uret)
       /\ \A id \in TaskIds : Cardinality(RowsWithId(dead', id)) <= 1]_vars


\* C26: done is terminal for a task: a row of the Video Tasks table whose
\* Status is done is still there, with Status done, after every step of every
\* worker (a failure reported by a slower holder, a stall recovery, a claim,
\* a dead-letter move).
DoneIsTerminal ==
    [][\A i \in 1..Len(tasks) :
          tasks[i].Status = STATUS_DONE =>
              \E j \in RowsWithId(tasks', tasks[i].ID) : tasks'[j].Status = STATUS_DONE]_vars


\* C27: the stored RetryCount of a live task row never decreases: every
\* write of a RetryCount cell that reaches the row it is addressed to stores
\* a value that is at least the value the row holds at that moment, also
\* when the writer works from the retry_count it copied at claim time.
RetryCountNeverDecreases ==
    [][\A w \in Workers :
          (Leaves(w, "u_write") /\ wk[w].op \in {"retry", "stall_reset"}) =>
              LET i == DataIndex(wk[w].uidx)
              IN (i <= Len(tasks) /\ tasks[i].ID = wk[w].held) =>
                    wk[w].uupd.RetryCount >= tasks[i].RetryCount]_vars


\* C28: a write or a delete addressed by row ID reaches only the row with
\* that ID: the row that update_row's update_cells overwrites, and the row
\* that the dead-letter move's delete_rows removes, has the ID the operation
\* was called with, whatever other workers deleted since the operation read
\* the table.
WritesReachAddressedRowOnly ==
    [][\A w \in Workers :
          LET i == DataIndex(wk[w].uidx)
              tbl == Table(wk[w].utbl)
          IN /\ Leaves(w, "u_write") => (i <= Len(tbl) => RecEq(tbl[i].ID, wk[w].urow))
             /\ Leaves(w, "d_delete") => (i <= Len(tasks) => RecEq(tasks[i].ID, wk[w].urow))]_vars


\* a dead-letter move of worker w is under way
MovingToDeadLetter(w) == wk[w].pc \in {"d_read", "d_row", "d_append", "d_delete"}

\* C29: no task is lost: whenever no dead-letter move is under way, every task
\* ID that was ever in the Video Tasks table is in exactly one of the live
\* Video Tasks table and the dead-letter table.
NoTaskLost ==
    (\A w \in Workers : ~MovingToDeadLetter(w)) =>
        \A id \in DOMAIN delivered : (id \in IdsOf(tasks)) # (id \in IdsOf(dead))


\* C30: when a claim routine returns no claim after its re-read (another
\* ClaimedBy, no row, or an exception in the re-read or in the conversion of
\* the row), no row with the ID it tried to claim is left in-progress under
\* the worker's own name.
NoClaimLeavesNoRowInProgress ==
    [][\A w \in Workers :
          /\ (Leaves(w, "t_reread") /\ wk'[w].pc # "processing") =>
                \A i \in RowsWithId(tasks', wk[w].tid) :
                    ~(tasks'[i].Status = STATUS_IN_PROGRESS /\ tasks'[i].ClaimedBy = w)
          /\ (Leaves(w, "s_reread") /\ wk'[w].pc # "e_read") =>
                \A i \in RowsWithId(sources', wk[w].tid) :
                    ~(sources'[i].Status = STATUS_IN_PROGRESS /\ sources'[i].ClaimedBy = w)]_vars


\* the first of the resolver's usable entries for a source URL that has the id
FirstOccurrence(url, id) ==
    LET es == UsableEntries(url)
        n == CHOOSE k \in 1..Len(es) : es[k].id = id /\ \A m \in 1..(k - 1) : es[m].id # id
    IN es[n]

\* C31: the rows one run of process_source_expansion has appended have
\* pairwise distinct IDs, each is the first occurrence of its id among the
\* entries the resolver yielded, and when the run has gone through all
\* entries every other usable entry (a later occurrence, or an id the table
\* held already) has been counted as skipped.
RunAppendsFirstOccurrenceOnly ==
    \A w \in Workers :
        LET r == wk[w]
        IN /\ \A j, k \in 1..Len(r.added) : r.added[j].ID = r.added[k].ID => j = k
           /\ r.src.some =>
                 \A k \in 1..Len(r.added) :
                     /\ r.added[k].ID \in UsableIds(r.src.url) \ r.snap
                     /\ r.added[k].URL = FirstOccurrence(r.src.url, r.added[k].ID).webpage_url
           /\ ExpansionDone(w) =>
                 /\ r.total_added = Cardinality(UsableIds(r.src.url) \ r.snap)
                 /\ r.total_skipped = Len(UsableEntries(r.src.url)) - r.total_added

\* a run over entries that repeat an id, on an empty table, has finished:
\* two rows appended, the repetition skipped
RepeatedIdExpansionDone ==
    \E w \in Workers :
        /\ ExpansionDone(w)
        /\ wk[w].src.url = "u3"
        /\ wk[w].snap = {}
        /\ Len(wk[w].added) = 2
        /\ wk[w].total_skipped = 1

====
